---- MODULE Spec2Model ----
(***************************************************************************)
(* State-machine model of restaurant_system/static/js/script.js: the       *)
(* customer ordering page (switchOrderType, submitOrder) and the admin     *)
(* panel (addDish, updateDish, deleteDish, searchOrder, deleteOrder),      *)
(* together with the browser machinery the handlers rely on: form fields   *)
(* the user edits, requests in flight, promise continuations that run when *)
(* a response arrives, and the timers set by showMessage.                  *)
(*                                                                         *)
(* A JavaScript string held by a form field is a sequence of one-character *)
(* strings (<<"8", ".", "5">> is "8.5"), so that parseFloat and the        *)
(* string-to-number coercion of `quantity > 0` are computed character by   *)
(* character.  The textContent of a display element is the sequence of the *)
(* pieces the code concatenates.  The literal texts of the source are not  *)
(* ASCII; each is a definition whose value is an ASCII transliteration.    *)
(***************************************************************************)
EXTENDS Integers, Sequences, FiniteSets, TLC

(* ------------------------------------------------------------------ *)
(* Bounds of the model                                                 *)
(* ------------------------------------------------------------------ *)
\* user actions (field edits, order-type switches, clicks on a submit button)
\* followed at the ordering page and at the admin panel
MaxOrderActions == 6
MaxAdminActions == 4
\* quantity inputs (dishes on the menu) of the ordering page
NumDishes == 2
\* orders in one search response
MaxOrders == 2

(* ------------------------------------------------------------------ *)
(* Characters                                                          *)
(* ------------------------------------------------------------------ *)
Digits == {"0", "1", "2", "3", "4", "5", "6", "7", "8", "9"}
DigitVal(c) ==
    CASE c = "0" -> 0 [] c = "1" -> 1 [] c = "2" -> 2 [] c = "3" -> 3
      [] c = "4" -> 4 [] c = "5" -> 5 [] c = "6" -> 6 [] c = "7" -> 7
      [] c = "8" -> 8 [] c = "9" -> 9
DigitChar(d) ==
    CASE d = 0 -> "0" [] d = 1 -> "1" [] d = 2 -> "2" [] d = 3 -> "3"
      [] d = 4 -> "4" [] d = 5 -> "5" [] d = 6 -> "6" [] d = 7 -> "7"
      [] d = 8 -> "8" [] d = 9 -> "9"
\* the digits of the literals 0x.., 0o.. and 0b.., by the bits of one digit
RadixDigits(bits) ==
    CASE bits = 1 -> {"0", "1"}
      [] bits = 3 -> {"0", "1", "2", "3", "4", "5", "6", "7"}
      [] bits = 4 -> Digits \cup {"a", "b", "c", "d", "e", "f", "A", "B", "C", "D", "E", "F"}
RadixVal(c) ==
    CASE c \in Digits -> DigitVal(c)
      [] c \in {"a", "A"} -> 10 [] c \in {"b", "B"} -> 11 [] c \in {"c", "C"} -> 12
      [] c \in {"d", "D"} -> 13 [] c \in {"e", "E"} -> 14 [] c \in {"f", "F"} -> 15
\* bits of one digit, by the letter after the leading 0 of the literal
RadixBits(c) ==
    CASE c \in {"x", "X"} -> 4 [] c \in {"o", "O"} -> 3 [] c \in {"b", "B"} -> 1
      [] OTHER -> 0
\* StrWhiteSpaceChar: tab, vertical tab, form feed, space, no-break space,
\* byte order mark, the space separators U+1680, U+2000..U+200A, U+202F,
\* U+205F and U+3000, and the line terminators LF, CR, U+2028 and U+2029.
\* A character that a string of this module cannot hold stands in it under
\* the name of its code point, as one character.
WhiteSpace ==
    {"\t", "", "\f", " ", " ", "﻿", " ", "\n", "\r",
     "U+2000", "U+2001", "U+2002", "U+2003", "U+2004", "U+2005", "U+2006",
     "U+2007", "U+2008", "U+2009", "U+200A", "U+2028", "U+2029", "U+202F",
     "U+205F", "U+3000"}
InfinityText == <<"I", "n", "f", "i", "n", "i", "t", "y">>

(* ------------------------------------------------------------------ *)
(* Natural numbers of any size                                         *)
(* ------------------------------------------------------------------ *)
\* A natural number is the sequence of its decimal digits, the most
\* significant first and not 0; <<>> is zero.  (The integers of the checker
\* have 32 bits; a double has a 53-bit significand and up to 1075 binary
\* places.)  A value that is used more than once is computed once, as the
\* one element x of a set {v}: CHOOSE it \in {F(x) : x \in {v}} : TRUE is
\* F(v).

\* the digits a without leading zeros
Strip(a) ==
    CHOOSE it \in {SubSeq(x, CHOOSE i \in 1..(Len(x) + 1) :
                                 /\ i = Len(x) + 1 \/ x[i] # 0
                                 /\ \A j \in 1..(i - 1) : x[j] = 0,
                          Len(x)) : x \in {a}} : TRUE

\* the number of zeros at the end of the digits a
TrailingZeros(a) ==
    CHOOSE it \in {CHOOSE t \in 0..Len(x) :
                       /\ t = Len(x) \/ x[Len(x) - t] # 0
                       /\ \A j \in 1..t : x[Len(x) - j + 1] = 0 : x \in {a}} : TRUE

\* a with zeros in front, n digits in all
Pad(a, n) ==
    CHOOSE it \in {SubSeq([i \in 1..n |-> IF i <= n - Len(x) THEN 0 ELSE x[i - (n - Len(x))]],
                          1, n) : x \in {a}} : TRUE

\* the first place after i at which P fails, n + 1 when there is none
FirstAfter(i, n, P(_)) ==
    CHOOSE j \in (i + 1)..(n + 1) : (j = n + 1 \/ ~P(j)) /\ \A k \in (i + 1)..(j - 1) : P(k)

\* a < b: b is longer, or greater at the first digit that differs
BLess(a, b) ==
    \E x \in {a}, y \in {b} :
        \/ Len(x) < Len(y)
        \/ /\ Len(x) = Len(y)
           /\ \E d \in {FirstAfter(0, Len(x), LAMBDA i : x[i] = y[i])} :
                  d <= Len(x) /\ x[d] < y[d]

\* p + q for p and q of the same length: a digit gets a carry when, of the
\* digits after it, the first pair whose sum is not 9 has a sum of 10 or more
AddDigits(p, q) ==
    CHOOSE it \in {(IF carry[1] = 1 THEN <<1>> ELSE <<>>)
                     \o SubSeq([i \in 1..Len(p) |-> (p[i] + q[i] + carry[i + 1]) % 10],
                               1, Len(p))
        : carry \in {SubSeq([i \in 1..(Len(p) + 1) |->
                       IF \E j \in {FirstAfter(i - 1, Len(p), LAMBDA k : p[k] + q[k] = 9)} :
                              j <= Len(p) /\ p[j] + q[j] >= 10
                       THEN 1 ELSE 0], 1, Len(p) + 1)}} : TRUE

\* a + b
BAdd(a, b) ==
    CHOOSE it \in {CHOOSE it \in {
        AddDigits(p, q)
        : p \in {Pad(x, IF Len(x) > Len(y) THEN Len(x) ELSE Len(y))},
          q \in {Pad(y, IF Len(x) > Len(y) THEN Len(x) ELSE Len(y))}} : TRUE
        : x \in {a}, y \in {b}} : TRUE

\* a - b, for a >= b: a digit lends when, of the digits after it, the first
\* pair that differs has the smaller digit in a
BSub(a, b) ==
    CHOOSE it \in {CHOOSE it \in {
        Strip(SubSeq([i \in 1..Len(x) |->
                        (x[i] - q[i] + 10
                           - (IF \E j \in {FirstAfter(i, Len(x), LAMBDA k : x[k] = q[k])} :
                                     j <= Len(x) /\ x[j] < q[j]
                              THEN 1 ELSE 0)) % 10], 1, Len(x)))
        : q \in {Pad(b, Len(x))}} : TRUE
        : x \in {a}} : TRUE

\* 2 * a: the carry into a digit comes from the digit after it alone
BDouble(a) ==
    CHOOSE it \in {(IF Len(x) > 0 /\ x[1] >= 5 THEN <<1>> ELSE <<>>)
                     \o SubSeq([i \in 1..Len(x) |->
                                  ((2 * x[i]) % 10)
                                    + (IF i < Len(x) /\ x[i + 1] >= 5 THEN 1 ELSE 0)],
                               1, Len(x)) : x \in {a}} : TRUE

\* a * 10^k
TimesPow10(a, k) ==
    CHOOSE it \in {IF x = <<>> THEN <<>> ELSE x \o [i \in 1..k |-> 0] : x \in {a}} : TRUE

\* the sum of the digit products x[i] * y[c + 1 - i] for i in lo..hi
RECURSIVE ColumnSum(_, _, _, _, _)
ColumnSum(x, y, c, lo, hi) ==
    IF lo > hi THEN 0
    ELSE IF lo = hi THEN x[lo] * y[c + 1 - lo]
    ELSE CHOOSE it \in {ColumnSum(x, y, c, lo, mid) + ColumnSum(x, y, c, mid + 1, hi)
             : mid \in {(lo + hi) \div 2}} : TRUE

\* the number whose decimal places hold cols[lo .. hi], each below 10^5, the
\* last at the units: the first half, shifted over the second, plus the second
RECURSIVE Carried(_, _, _)
Carried(cols, lo, hi) ==
    IF lo = hi
    THEN Strip(SubSeq([t \in 1..5 |-> (cols[lo] \div (10 ^ (5 - t))) % 10], 1, 5))
    ELSE CHOOSE it \in {BAdd(TimesPow10(Carried(cols, lo, mid), hi - mid),
                             Carried(cols, mid + 1, hi))
             : mid \in {(lo + hi) \div 2}} : TRUE

\* a * b (for a or b below 10^1234): column c of the long multiplication holds
\* the sum of the digit products x[i] * y[c + 1 - i], a number below 10^5
BMul(a, b) ==
    CHOOSE it \in {
        IF x = <<>> \/ y = <<>> THEN <<>>
        ELSE CHOOSE it \in {Carried(cols, 1, Len(cols))
                 : cols \in {SubSeq([c \in 1..(Len(x) + Len(y) - 1) |->
                                ColumnSum(x, y, c,
                                          IF c + 1 - Len(y) > 1 THEN c + 1 - Len(y) ELSE 1,
                                          IF c < Len(x) THEN c ELSE Len(x))],
                                    1, Len(x) + Len(y) - 1)}} : TRUE
        : x \in {a}, y \in {b}} : TRUE

\* a * d for one digit d
TimesDigit(a, d) == IF d = 0 THEN <<>> ELSE BMul(a, <<d>>)

\* 2^k, by squaring
RECURSIVE Pow2(_)
Pow2(k) ==
    IF k = 0 THEN <<1>>
    ELSE CHOOSE it \in {IF k % 2 = 0 THEN BMul(h, h) ELSE BDouble(BMul(h, h))
             : h \in {Pow2(k \div 2)}} : TRUE

\* a * 2^k
ShiftLeft(a, k) == BMul(a, Pow2(k))

\* n < m * 2^e, for any integer e
LessScaled(n, m, e) ==
    \E t \in {ShiftLeft(IF e >= 0 THEN m ELSE n, IF e >= 0 THEN e ELSE -e)} :
        BLess(IF e >= 0 THEN n ELSE t, IF e >= 0 THEN t ELSE m)

\* the multiples 0 * b .. 9 * b
Multiples(b) ==
    CHOOSE it \in {SubSeq([d \in 1..10 |-> TimesDigit(x, d - 1)], 1, 10) : x \in {b}} : TRUE

\* quotient and remainder of a by b * 10^p, for a < b * 10^(p+1) and mult the
\* multiples of b: the quotient is the greatest digit whose multiple is not
\* above a
DivDigit(a, mult, p) ==
    CHOOSE it \in {[quot |-> CHOOSE d \in ds : \A c \in ds : c <= d,
                    rem |-> BSub(a, TimesPow10(mult[1 + CHOOSE d \in ds : \A c \in ds : c <= d],
                                               p))]
        : ds \in {{d \in 0..9 : ~BLess(a, TimesPow10(mult[d + 1], p))}}} : TRUE

\* quotient and remainder of a by b by long division from the place 10^p
\* down, for a < b * 10^(p+1) and mult the multiples of b; quot is the
\* quotient found so far
RECURSIVE DivMod(_, _, _, _)
DivMod(a, mult, p, quot) ==
    IF p < 0 THEN [quot |-> Strip(quot), rem |-> a]
    ELSE CHOOSE it \in {DivMod(d.rem, mult, p - 1, quot \o <<d.quot>>)
             : d \in {DivDigit(a, mult, p)}} : TRUE

\* quotient and remainder of a by b, for a < b * 10^(p+1)
Divide(a, b, p) ==
    CHOOSE it \in {DivMod(x, mult, p, <<>>) : x \in {a}, mult \in {Multiples(b)}} : TRUE

(* ------------------------------------------------------------------ *)
(* JavaScript numbers                                                  *)
(* ------------------------------------------------------------------ *)
\* A number is NaN, +/-Infinity or a finite double.  A finite double is held
\* as the digits Number::toString gives it: the shortest decimal
\* 0.d1...dk * 10^point that converts to it (digits <<>> for +0 and -0).
NaN == [kind |-> "nan", neg |-> FALSE, digits |-> <<>>, point |-> 0]
Inf(neg) == [kind |-> "inf", neg |-> neg, digits |-> <<>>, point |-> 0]
Fin(neg, digits, point) == [kind |-> "fin", neg |-> neg, digits |-> digits, point |-> point]
Zero(neg) == Fin(neg, <<>>, 0)

isNaN(x) == x.kind = "nan"

\* x > 0, x <= 0 and x > 1 as JavaScript evaluates them (all false on NaN)
GtZero(x) ==
    \/ x.kind = "inf" /\ ~x.neg
    \/ x.kind = "fin" /\ ~x.neg /\ x.digits # <<>>
LeZero(x) ==
    \/ x.kind = "inf" /\ x.neg
    \/ x.kind = "fin" /\ (x.neg \/ x.digits = <<>>)
GtOne(x) ==
    \/ x.kind = "inf" /\ ~x.neg
    \/ /\ x.kind = "fin" /\ ~x.neg /\ x.digits # <<>>
       /\ \/ x.point > 1
          \/ x.point = 1 /\ x.digits # <<1>>

\* 2^52 and 2^53, the bounds of the significand of a normal double
TwoTo52 == <<4, 5, 0, 3, 5, 9, 9, 6, 2, 7, 3, 7, 0, 4, 9, 6>>
TwoTo53 == <<9, 0, 0, 7, 1, 9, 9, 2, 5, 4, 7, 4, 0, 9, 9, 2>>
\* the least and the greatest binary exponent of a 53-bit significand
MinExp == -1074
MaxExp == 971

\* The quotient d.quot of a division by den with remainder d.rem, rounded to
\* the nearest integer, ties to the even one: up when twice the remainder is
\* above den, or equal to it with the quotient odd.  [sig, exp] for
\* sig * 2^exp, with 2^53 held as 2^52 * 2.
RoundQuotient(d, den, q) ==
    CHOOSE it \in {IF sig = TwoTo53 THEN [sig |-> TwoTo52, exp |-> q + 1]
                   ELSE [sig |-> sig, exp |-> q]
        : sig \in {IF \E twice \in {BDouble(d.rem)} :
                          IF twice = den
                          THEN d.quot # <<>> /\ d.quot[Len(d.quot)] % 2 = 1
                          ELSE BLess(den, twice)
                   THEN BAdd(d.quot, <<1>>) ELSE d.quot}} : TRUE

\* The double nearest to n / m (n, m > 0), ties to the even significand:
\* [sig, exp] for sig * 2^exp, sig <<>> for 0, exp above MaxExp for Infinity.
\* The exponent q is the one that brings the quotient into [2^52, 2^53), or
\* MinExp when that one is lower: the least with n / m < 2^(q + 53), looked
\* for from est, which is at most 7 below it.
NearestDouble(n, m, est) ==
    CHOOSE it \in {CHOOSE it \in {CHOOSE it \in {CHOOSE it \in {CHOOSE it \in {
        RoundQuotient(d, IF q < 0 THEN y ELSE t, q)
        : d \in {Divide(IF q < 0 THEN t ELSE x, IF q < 0 THEN y ELSE t, 15)}} : TRUE
        : t \in {ShiftLeft(IF q < 0 THEN x ELSE y, IF q < 0 THEN -q ELSE q)}} : TRUE
        : q \in {CHOOSE j \in qs : \A i \in qs : j <= i}} : TRUE
        : qs \in {{j \in q0..(q0 + 7) : LessScaled(x, y, j + 53)}}} : TRUE
        : x \in {n}, y \in {m}, q0 \in {IF est < MinExp THEN MinExp ELSE est}} : TRUE

\* r + mp reaches s: the upper end of the rounding interval, (r + mp) / s,
\* is 1 or more (more than 1 when the end itself does not convert to the
\* double)
High(r, mp, s, ok) ==
    \E h \in {BAdd(r, mp)} : IF ok THEN ~BLess(h, s) ELSE BLess(s, h)

\* 2 * a, or 4 * a for the narrow interval
Widen(a, narrow) == IF narrow THEN BDouble(BDouble(a)) ELSE BDouble(a)

\* The double sig * 2^exp (sig # <<>>) and its rounding interval as
\* fractions over s: the double is r / s, the interval reaches mm / s below
\* and mp / s above, which is half way to the next double (a quarter below,
\* when sig is 2^52 and the exponent not the least: the narrow interval);
\* ok: its ends convert to the double (sig is even).
Interval(sig, exp) ==
    CHOOSE it \in {
        [r |-> Widen(IF exp > 0 THEN BMul(sig, pw) ELSE sig, narrow),
         s |-> Widen(IF exp > 0 THEN <<1>> ELSE pw, narrow),
         mp |-> IF narrow THEN BDouble(IF exp > 0 THEN pw ELSE <<1>>)
                ELSE IF exp > 0 THEN pw ELSE <<1>>,
         mm |-> IF exp > 0 THEN pw ELSE <<1>>,
         ok |-> sig[Len(sig)] % 2 = 0]
        : pw \in {Pow2(IF exp > 0 THEN exp ELSE -exp)},
          narrow \in {sig = TwoTo52 /\ exp > MinExp}} : TRUE

\* the fractions of g over s * 10^k
Scaled(g, k) ==
    [r |-> TimesPow10(g.r, IF k < 0 THEN -k ELSE 0),
     s |-> TimesPow10(g.s, IF k > 0 THEN k ELSE 0),
     mp |-> TimesPow10(g.mp, IF k < 0 THEN -k ELSE 0),
     mm |-> TimesPow10(g.mm, IF k < 0 THEN -k ELSE 0),
     ok |-> g.ok]

\* the upper end of the rounding interval g is 10^k or more
Reaches(g, k) ==
    \E h \in {Scaled(g, k)} : High(h.r, h.mp, h.s, h.ok)

\* The decimals of len digits next below (lo) and next above (hi) the double
\* r / s of g, as numbers of tenths^len: whether each lies in the rounding
\* interval and is the nearer of the two, and whether they are equally near;
\* q holds the first 17 digits of r / s.
Candidate(g, q, len) ==
    CHOOSE it \in {CHOOSE it \in {
        [lo |-> [digits |-> below,
                 fits |-> IF g.ok THEN ~BLess(TimesPow10(g.mm, len), rem)
                          ELSE BLess(rem, TimesPow10(g.mm, len)),
                 nearer |-> BLess(BDouble(rem), g.s)],
         hi |-> [digits |-> BAdd(below, <<1>>),
                 fits |-> High(rem, TimesPow10(g.mp, len), g.s, g.ok),
                 nearer |-> BLess(g.s, BDouble(rem))],
         tie |-> BDouble(rem) = g.s]
        : rem \in {BSub(TimesPow10(g.r, len), BMul(below, g.s))}} : TRUE
        : below \in {Strip(SubSeq(q, 1, len))}} : TRUE

\* Of the candidates cs, by their number of digits, those with the fewest
\* digits that lie in the rounding interval, and of two of them the nearer to
\* the double, at a tie the even one: [digits, point] for the rounding
\* interval below 10^k.
Fewest(cs, k) ==
    CHOOSE it \in {CHOOSE it \in {
        [digits |-> SubSeq(ds, 1, Len(ds) - TrailingZeros(ds)), point |-> k + Len(ds) - n]
        : ds \in {IF ~cs[n].hi.fits THEN cs[n].lo.digits
                  ELSE IF ~cs[n].lo.fits THEN cs[n].hi.digits
                  ELSE IF \/ cs[n].lo.nearer
                          \/ cs[n].tie /\ cs[n].lo.digits[Len(cs[n].lo.digits)] % 2 = 0
                  THEN cs[n].lo.digits
                  ELSE cs[n].hi.digits}} : TRUE
        : n \in {CHOOSE n \in 1..17 :
                     /\ cs[n].lo.fits \/ cs[n].hi.fits
                     /\ \A j \in 1..(n - 1) : ~(cs[j].lo.fits \/ cs[j].hi.fits)}} : TRUE

\* The shortest decimal that converts to the double of the rounding interval
\* g, which is below 10^k and scaled by it: the candidates are cut from the
\* first 17 digits of r / s
ShortestIn(g, k) ==
    CHOOSE it \in {CHOOSE it \in {
        Fewest(cs, k)
        : cs \in {SubSeq([n \in 1..17 |-> Candidate(g, q, n)], 1, 17)}} : TRUE
        : q \in {Pad(Divide(TimesPow10(g.r, 17), g.s, 16).quot, 17)}} : TRUE

\* The shortest decimal that converts to the double sig * 2^exp (sig # <<>>):
\* [digits, point].  point is the least k with the whole rounding interval
\* below 10^k, looked for from an estimate that is at most 4 below it.
Shortest(sig, exp) ==
    CHOOSE it \in {CHOOSE it \in {CHOOSE it \in {CHOOSE it \in {
        ShortestIn(g, k)
        : g \in {Scaled(g0, k)}} : TRUE
        : k \in {CHOOSE k \in ks : \A j \in ks : k <= j}} : TRUE
        : ks \in {{k \in (Len(sig) - 1 + ((exp * 30103) \div 100000))
                          ..(Len(sig) + 3 + ((exp * 30103) \div 100000)) :
                      ~Reaches(g0, k)}}} : TRUE
        : g0 \in {Interval(sig, exp)}} : TRUE

\* The double nearest to ds * 10^e, ds a sequence of decimal digits without
\* zeros at its ends.  A decimal of at most 15 significant digits within the
\* range of the normal doubles is itself the shortest decimal of the double
\* nearest to it, so the rounding leaves it as it is; at or above 10^309 the
\* result is Infinity and below 10^-324 it is 0; every other decimal is
\* rounded digit by digit.
RoundDigits(neg, ds, e) ==
    LET point == Len(ds) + e
    IN  IF ds = <<>> THEN Zero(neg)
        ELSE IF Len(ds) <= 15 /\ point >= -306 /\ point <= 308 THEN Fin(neg, ds, point)
        ELSE IF point >= 310 THEN Inf(neg)
        ELSE IF point <= -324 THEN Zero(neg)
        ELSE CHOOSE it \in {
                 IF d.sig = <<>> THEN Zero(neg)
                 ELSE IF d.exp > MaxExp THEN Inf(neg)
                 ELSE CHOOSE it \in {Fin(neg, t.digits, t.point)
                          : t \in {Shortest(d.sig, d.exp)}} : TRUE
                 : d \in {NearestDouble(IF e > 0 THEN TimesPow10(ds, e) ELSE ds,
                                        IF e < 0 THEN TimesPow10(<<1>>, -e) ELSE <<1>>,
                                        ((point * 33219) \div 10000) - 57)}} : TRUE

\* The double nearest to sig * 10^exp10, sig a sequence of decimal digits
RoundDecimal(neg, sig, exp10) ==
    CHOOSE it \in {CHOOSE it \in {CHOOSE it \in {
        RoundDigits(neg, ds, exp10 + z)
        : ds \in {SubSeq(lead, 1, Len(lead) - z)}} : TRUE
        : z \in {TrailingZeros(lead)}} : TRUE
        : lead \in {Strip(sig)}} : TRUE

(* ------------------------------------------------------------------ *)
(* The two string-to-number conversions and Number::toString           *)
(* ------------------------------------------------------------------ *)
\* index of the first character at or after i that is not in set cs
SkipWhile(s, i, cs) == FirstAfter(i - 1, Len(s), LAMBDA j : s[j] \in cs)

\* index of the last character at or before j that is not white space (0 if
\* none)
TrimEnd(s, j) ==
    CHOOSE z \in 0..j : /\ z = 0 \/ s[z] \notin WhiteSpace
                        /\ \A k \in (z + 1)..j : s[k] \in WhiteSpace

\* the values of the digits s[i .. j-1]
DigitsValue(s, i, j) == SubSeq([k \in 1..(j - i) |-> DigitVal(s[i + k - 1])], 1, j - i)

\* the exponent written by the digits s[i .. j-1]; every exponent of seven
\* digits or more counts as 10^6, far beyond the range of the doubles
ExponentValue(s, i, j) ==
    CHOOSE it \in {IF Len(ds) > 6 THEN 1000000
                   ELSE CHOOSE it \in {p[1] * 100000 + p[2] * 10000 + p[3] * 1000
                                         + p[4] * 100 + p[5] * 10 + p[6]
                            : p \in {Pad(ds, 6)}} : TRUE
        : ds \in {Strip(DigitsValue(s, i, j))}} : TRUE

HasPrefixAt(s, i, p) ==
    /\ i + Len(p) - 1 <= Len(s)
    /\ \A k \in 1..Len(p) : s[i + k - 1] = p[k]

\* index after an optional sign at index i
SignEnd(s, i) == IF i <= Len(s) /\ s[i] \in {"+", "-"} THEN i + 1 ELSE i
\* index after an optional dot and the digits that follow it, from index b
FracEnd(s, b) ==
    IF b <= Len(s) /\ s[b] = "." THEN SkipWhile(s, b + 1, Digits) ELSE b
\* index after an exponent part (e, optional sign, at least one digit)
\* starting at index c; c itself when there is none
ExpEnd(s, c) ==
    IF c <= Len(s) /\ s[c] \in {"e", "E"}
    THEN CHOOSE it \in {IF e > SignEnd(s, c + 1) THEN e ELSE c
             : e \in {SkipWhile(s, SignEnd(s, c + 1), Digits)}} : TRUE
    ELSE c

\* What a numeric literal writes, before it is rounded to a double: no number,
\* an infinity, or the digits sig times 10^exp10
NotANumber == [kind |-> "nan", neg |-> FALSE, sig |-> <<>>, exp10 |-> 0]
Infinite(neg) == [kind |-> "inf", neg |-> neg, sig |-> <<>>, exp10 |-> 0]
Decimal(neg, sig, exp10) == [kind |-> "dec", neg |-> neg, sig |-> sig, exp10 |-> exp10]

\* the Number value of what a literal writes
RoundMV(w) ==
    CHOOSE it \in {IF mv.kind = "nan" THEN NaN
                   ELSE IF mv.kind = "inf" THEN Inf(mv.neg)
                   ELSE RoundDecimal(mv.neg, mv.sig, mv.exp10) : mv \in {w}} : TRUE

\* The decimal literal made of a sign in s[i .. a-1], integer digits in
\* s[a .. b-1], a dot and fraction digits in s[b .. c-1] and an exponent
\* part in s[c .. e-1]: [ok, next, mv], next the index after it and mv
\* what it writes.
Literal(s, i, a, b, c, e) ==
    IF HasPrefixAt(s, a, InfinityText)
    THEN [ok |-> TRUE, next |-> a + Len(InfinityText), mv |-> Infinite(a > i /\ s[i] = "-")]
    \* a dot with no digit on either side is no literal
    ELSE IF (b - a) + (IF c > b THEN c - b - 1 ELSE 0) = 0
    THEN [ok |-> FALSE, next |-> i, mv |-> NotANumber]
    ELSE [ok |-> TRUE, next |-> e,
          mv |-> Decimal(a > i /\ s[i] = "-",
                         DigitsValue(s, a, b)
                           \o DigitsValue(s, IF c > b THEN b + 1 ELSE c, c),
                         (IF e = c THEN 0
                          ELSE IF s[c + 1] = "-" THEN -ExponentValue(s, c + 2, e)
                          ELSE ExponentValue(s, SignEnd(s, c + 1), e))
                           - (IF c > b THEN c - b - 1 ELSE 0))]

\* The longest StrDecimalLiteral starting at index i of s
ScanDecimal(s, i) ==
    CHOOSE it \in {CHOOSE it \in {CHOOSE it \in {CHOOSE it \in {
        Literal(s, i, a, b, c, e)
        : e \in {ExpEnd(s, c)}} : TRUE
        : c \in {FracEnd(s, b)}} : TRUE
        : b \in {SkipWhile(s, a, Digits)}} : TRUE
        : a \in {SignEnd(s, i)}} : TRUE

\* parseFloat(s): leading white space is skipped, the longest prefix that is
\* a decimal literal is converted and whatever follows it is ignored (so the
\* x of 0x10 ends the literal 0); NaN when there is none.
parseFloat(s) == RoundMV(ScanDecimal(s, SkipWhile(s, 1, WhiteSpace)).mv)

\* the number written by the digits ds (their values) of 2^bits each: the
\* first half times the weight of the second half, plus the second half
RECURSIVE RadixValue(_, _)
RadixValue(ds, bits) ==
    CHOOSE it \in {
        IF Len(d) <= 1
        THEN Strip([i \in 1..Len(d) |-> d[i] \div 10] \o [i \in 1..Len(d) |-> d[i] % 10])
        ELSE BAdd(ShiftLeft(RadixValue(SubSeq(d, 1, Len(d) \div 2), bits),
                            bits * (Len(d) - (Len(d) \div 2))),
                  RadixValue(SubSeq(d, (Len(d) \div 2) + 1, Len(d)), bits))
        : d \in {ds}} : TRUE

\* The literal 0x.., 0o.. or 0b.. that is s[a .. z]: [ok, mv]; it has no sign
\* and at least one digit.
RadixLiteral(s, a, z) ==
    CHOOSE it \in {
        IF bits > 0 /\ a + 2 <= z /\ \A k \in (a + 2)..z : s[k] \in RadixDigits(bits)
        THEN [ok |-> TRUE,
              mv |-> Decimal(FALSE,
                         RadixValue(SubSeq([k \in 1..(z - a - 1) |-> RadixVal(s[a + 1 + k])],
                                           1, z - a - 1), bits), 0)]
        ELSE [ok |-> FALSE, mv |-> NotANumber]
        : bits \in {IF a + 1 <= z /\ s[a] = "0" THEN RadixBits(s[a + 1]) ELSE 0}} : TRUE

\* ToNumber(s), the coercion applied by `quantity > 0`: the whole string,
\* white space trimmed, must be a numeric literal, decimal, hexadecimal, octal
\* or binary; the empty string is 0.
ToNumber(s) ==
    CHOOSE it \in {
        IF a > z THEN Zero(FALSE)
        ELSE CHOOSE it \in {RoundMV(IF r.ok /\ (r.next = z + 1) THEN r.mv ELSE NotANumber)
                 : r \in {CHOOSE it \in {IF h.ok THEN [ok |-> TRUE, next |-> z + 1, mv |-> h.mv]
                                         ELSE ScanDecimal(s, a)
                              : h \in {RadixLiteral(s, a, z)}} : TRUE}} : TRUE
        : a \in {SkipWhile(s, 1, WhiteSpace)}, z \in {TrimEnd(s, Len(s))}} : TRUE

\* the decimal digits of the natural number n
RECURSIVE IntDigits(_)
IntDigits(n) ==
    IF n < 10 THEN <<DigitChar(n)>> ELSE IntDigits(n \div 10) \o <<DigitChar(n % 10)>>

\* Number::toString(x), the text of a number appended to a FormData or
\* assigned to the value of an input: with k digits and the point after the
\* n-th, the digits and n - k zeros for k <= n <= 21, the digits with the
\* point among them for 0 < n <= 21, 0. and -n zeros and the digits for
\* -6 < n <= 0, else the exponential form; 0 for +0 and for -0.
NumberToString(x) ==
    IF x.kind = "nan" THEN <<"N", "a", "N">>
    ELSE IF x.kind = "inf" THEN (IF x.neg THEN <<"-">> ELSE <<>>) \o InfinityText
    ELSE IF x.digits = <<>> THEN <<"0">>
    ELSE LET k == Len(x.digits)
             n == x.point
             ds == [i \in 1..k |-> DigitChar(x.digits[i])]
             zeros(m) == [i \in 1..m |-> "0"]
         IN  (IF x.neg THEN <<"-">> ELSE <<>>)
               \o (IF k <= n /\ n <= 21 THEN ds \o zeros(n - k)
                   ELSE IF 0 < n /\ n <= 21
                   THEN SubSeq(ds, 1, n) \o <<".">> \o SubSeq(ds, n + 1, k)
                   ELSE IF -6 < n /\ n <= 0 THEN <<"0", ".">> \o zeros(-n) \o ds
                   ELSE <<ds[1]>> \o (IF k > 1 THEN <<".">> \o SubSeq(ds, 2, k) ELSE <<>>)
                          \o <<"e", IF n - 1 < 0 THEN "-" ELSE "+">>
                          \o IntDigits(IF n - 1 < 0 THEN 1 - n ELSE n - 1))

\* !s for a string s
Falsy(s) == s = <<>>


(* ------------------------------------------------------------------ *)
(* Literal texts of the source                                         *)
(* ------------------------------------------------------------------ *)
AlertTableNum == "Please enter the table number"
AlertTakeoutInfo == "Please fill in the complete takeout information"
AlertNoDish == "Please choose at least one dish"
AlertNetworkError == "Network error: "
SubmitFailedLabel == "Submit failed: "
MsgInvalidDish == "Please enter valid dish information (discount between 0 and 1)"
MsgDishAdded == "Dish added!"
AddFailedLabel == "Add failed: "
MsgEnterDishId == "Please enter the dish ID"
MsgDishUpdated == "Dish updated!"
UpdateFailedLabel == "Update failed: "
MsgDishDeleted == "Dish deleted!"
DeleteFailedLabel == "Delete failed: "
MsgEnterKeyword == "Please enter a search keyword"
MsgNoOrders == "No matching order found"
SearchFailedLabel == "Search failed: "
MsgEnterOrderNo == "Please enter the order number"
MsgOrderDeleted == "Order deleted!"
NetworkErrorLabel == "Network error: "
OrderHeaderOpen == "\n===== Order "
OrderHeaderClose == " =====\n"
NewLine == "\n"
ColorError == "#f44336"
ColorOk == "#4CAF50"

(* ------------------------------------------------------------------ *)
(* The documents                                                       *)
(* ------------------------------------------------------------------ *)
\* text and select inputs of the ordering page and of the admin panel
OrderFields == {"table_num", "takeout_time", "takeout_address", "phone"}
AdminFields == {"dish_name", "dish_price", "dish_discount",
                "update_dish_id", "update_dish_name", "update_dish_price",
                "update_dish_discount", "delete_dish_id",
                "search_type", "search_keyword", "delete_order_no"}
Fields == OrderFields \cup AdminFields
\* areas written by showMessage
MessageAreas == {"dish-message", "update-message", "delete-message",
                 "order-message", "delete-order-message"}
\* elements whose class list carries, or not, the class hidden
Hideable == MessageAreas \cup {"order-result", "dinein-form", "takeout-form"}
\* elements with a textContent
TextAreas == MessageAreas \cup {"order-result"}
OrderTypes == {"dinein", "takeout"}
DishInputs == 1..NumDishes
\* data-dish-id of the i-th quantity input
DishId(i) == <<"d", ToString(i)>>

\* what the user may type into a field; among the numbers, texts that
\* parseFloat reads in part (0.9x, and 0x10 as 0), after white space (a form
\* feed before 5), as 0 (1e-400) and as 1 (more digits than a double holds)
TextChoices(f) ==
    CASE f = "table_num" -> {<<>>, <<"5">>}
      [] f = "takeout_time" -> {<<>>, <<"1", "2", ":", "3", "0">>}
      [] f = "takeout_address" -> {<<>>, <<"A">>}
      [] f = "phone" -> {<<>>, <<"7">>}
      [] f = "dish_name" -> {<<>>, <<"S", "o", "u", "p">>}
      [] f = "dish_price" -> {<<>>, <<"8", ".", "5">>, <<"-", "1">>, <<"x">>, <<"\f", "5">>,
                              <<"1", "e", "-", "4", "0", "0">>}
      [] f = "dish_discount" -> {<<>>, <<"1", ".", "0">>, <<"0", ".", "9">>, <<"0">>,
                                 <<"1", ".", "5">>, <<"0", ".", "9", "x">>,
                                 <<"1", ".", "0", "0", "0", "0", "0", "0", "0", "0", "0", "0",
                                   "0", "0", "0", "0", "0", "0", "0", "0", "0", "0", "1">>}
      [] f = "update_dish_id" -> {<<>>, <<"3">>}
      [] f = "update_dish_name" -> {<<>>, <<"P", "i", "e">>}
      [] f = "update_dish_price" -> {<<>>, <<"9">>, <<"0", "x", "1", "0">>}
      [] f = "update_dish_discount" -> {<<>>, <<"0", ".", "8">>,
                                        <<"0", ".", "9", "9", "9", "9", "9", "9", "9", "9", "9", "9",
                                          "9", "9", "9", "9", "9", "9", "9", "9", "9", "9">>}
      [] f = "delete_dish_id" -> {<<>>, <<"3">>}
      [] f = "search_type" -> {<<"order_no">>, <<"table_num">>}
      [] f = "search_keyword" -> {<<>>, <<"5">>}
      [] f = "delete_order_no" -> {<<>>, <<"4", "2">>}
\* what the user may type into a quantity input: besides decimal numbers,
\* the empty text, a text that is no number, the hexadecimal 16 and a 2
\* after a form feed
QuantityChoices == {<<"0">>, <<"2">>, <<"-", "1">>, <<>>, <<"2", "x">>,
                    <<"0", "x", "1", "0">>, <<"\f", "2">>}

\* the documents as served
DefaultValue(f) ==
    CASE f = "dish_discount" -> <<"1", ".", "0">>
      [] f = "search_type" -> <<"order_no">>
      [] OTHER -> <<>>
DefaultQuantity == <<"0">>
DefaultHidden(e) == e # "dinein-form"

VARIABLES
    page,              \* which document is loaded: "order" or "admin"
    currentOrderType,  \* the script's global
    activeBtns,        \* toggle buttons carrying the class active
    hidden,            \* element -> its class list contains hidden
    value,             \* field -> its value
    checked,           \* has_room_fee.checked
    qty,               \* quantity input -> its value
    textContent,       \* display element -> pieces of its text
    color,             \* message area -> style.color
    timers,            \* timeouts set and not yet fired, in firing order
    pending,           \* requests in flight, in the order they were issued
    navigating,        \* location.reload() was called, the document not yet replaced
    ev,                \* what the last step did
    nInvoked,          \* invocations of the six request handlers
    nIssued,           \* calls of fetch
    nEdits,            \* user edits and order-type switches
    reloads            \* calls of location.reload()

\* the user may act again
MayAct == nEdits + nInvoked < (IF page = "order" THEN MaxOrderActions ELSE MaxAdminActions)

dom == <<currentOrderType, activeBtns, hidden, value, checked, qty, textContent, color>>
vars == <<page, currentOrderType, activeBtns, hidden, value, checked, qty,
          textContent, color, timers, pending, navigating, ev, nInvoked,
          nIssued, nEdits, reloads>>

(* ------------------------------------------------------------------ *)
(* FormData, requests, responses                                       *)
(* ------------------------------------------------------------------ *)
Entry(k, v) == [k |-> k, v |-> v]
Has(form, k) == \E n \in 1..Len(form) : form[n].k = k
Request(op, body) == [op |-> op, body |-> body]
NoRequest == Request("none", <<>>)
RemoveAt(s, n) == SubSeq(s, 1, n - 1) \o SubSeq(s, n + 1, Len(s))

\* A property of the JSON body that the server may leave out is held as a
\* sequence: <<>> when it is absent, so that reading it gives undefined, and
\* <<v>> when it is v.
Absent == <<>>
\* what the server may return as data.order_info, data.error and the info of
\* an order, and the error of a rejected fetch or response.json()
OrderInfos == {<<"Order #12">>, <<"Order #13">>}
Errors == {<<"duplicate">>}
TransportErrors == {<<"TypeError: Failed to fetch">>}
Infos == {<<"A">>, <<"B">>}
\* data.orders: up to MaxOrders objects, each with or without an info
OrderLists == UNION {[1..k -> [info : {Absent} \cup {<<i>> : i \in Infos}]] : k \in 0..MaxOrders}

NoData == [kind |-> "none"]
\* the promise chain rejected before the first callback of the handler
Rejected(error) == [kind |-> "rejected", error |-> error]
\* the body parsed by response.json(): the JSON null, or an object with the
\* properties that are not Absent
Json(success, error, order_info, orders) ==
    [kind |-> "json", null |-> FALSE, success |-> success, error |-> error,
     order_info |-> order_info, orders |-> orders]
Null == [Json(Absent, Absent, Absent, Absent) EXCEPT !.null = TRUE]
Failure(error) == Json(<<FALSE>>, error, Absent, Absent)
\* the outcomes of a request of operation op: the rejection of fetch or of
\* response.json(), or the parsed body, which is null, {}, a failure with its
\* reason, or a success with or without the property the callback reads
Outcomes(op) ==
    {Rejected(e) : e \in TransportErrors}
      \cup {Null, Json(Absent, Absent, Absent, Absent)}
      \cup {Failure(<<e>>) : e \in Errors}
      \cup (CASE op = "submitOrder" ->
                   {Json(<<TRUE>>, Absent, i, Absent) :
                       i \in {Absent} \cup {<<t>> : t \in OrderInfos}}
              [] op = "searchOrder" ->
                   {Json(<<TRUE>>, Absent, Absent, os) :
                       os \in {Absent} \cup {<<l>> : l \in OrderLists}}
              [] OTHER -> {Json(<<TRUE>>, Absent, Absent, Absent)})

\* if (x), for a property x that is absent or a boolean
Truthy(x) == x = <<TRUE>>
\* 'label' + x: an absent x reads as undefined and is written "undefined"
ToText(x) == IF x = Absent THEN <<"undefined">> ELSE x[1]
\* element.textContent = x: undefined is set as the empty text
TextContentOf(x) == IF x = Absent THEN <<>> ELSE x[1]

\* The TypeError that reading a property of null or undefined throws, with
\* the text V8 gives it: of data.success when data is null (lines 82, 122,
\* 163, 202, 240, 278) and of data.orders.length when data has no orders
\* (line 241).
ErrorNullSuccess == <<"TypeError: Cannot read properties of null (reading 'success')">>
ErrorUndefinedLength == <<"TypeError: Cannot read properties of undefined (reading 'length')">>
\* what the callback .then(data => ...) of op throws on data: <<>> when it
\* returns, <<error>> when it throws error
Thrown(op, data) ==
    IF data.null THEN <<ErrorNullSuccess>>
    ELSE IF op = "searchOrder" /\ Truthy(data.success) /\ data.orders = Absent
    THEN <<ErrorUndefinedLength>>
    ELSE <<>>
\* what reaches .catch(error => ...), chained after that callback: the
\* rejection of the chain before it, or what the callback threw
Caught(op, data) ==
    IF data.kind = "rejected" THEN <<data.error>> ELSE Thrown(op, data)

(* ------------------------------------------------------------------ *)
(* The record of the last step                                         *)
(* ------------------------------------------------------------------ *)
NoAlert == <<>>
\* op and phase: which operation and which part of it ("call" for the handler;
\* for the continuations "ok" and "failed" for the two branches of the first
\* callback, "threw" when that callback threw and the catch callback ran
\* after it, "catch" when the catch callback ran alone; "env" for a step of
\* the browser or the user); alert: the text passed to alert(); sent: fetch was
\* called; confirm: the confirm() dialog ("none" if not shown); reload:
\* location.reload() was called; shown: the area passed to showMessage;
\* req: the request sent or answered; data: the outcome handled; arg: the
\* argument of switchOrderType; again: the step before was the same call of
\* switchOrderType
Evt(op, phase) ==
    [op |-> op, phase |-> phase, alert |-> NoAlert, sent |-> FALSE,
     confirm |-> "none", reload |-> FALSE, shown |-> "none",
     req |-> NoRequest, data |-> NoData, arg |-> "none", again |-> FALSE]
Quiet(op) == Evt(op, "env")
Phase(op, data) ==
    IF data.kind = "rejected" THEN "catch"
    ELSE IF Thrown(op, data) # <<>> THEN "threw"
    ELSE IF Truthy(data.success) THEN "ok" ELSE "failed"

\* what the continuations read and change of the document and the window
Document ==
    [hidden |-> hidden, textContent |-> textContent, color |-> color,
     timers |-> timers, value |-> value, checked |-> checked, qty |-> qty,
     navigating |-> navigating, reloads |-> reloads]
\* the step leaves them as d
Becomes(d) ==
    /\ hidden' = d.hidden
    /\ textContent' = d.textContent
    /\ color' = d.color
    /\ timers' = d.timers
    /\ value' = d.value
    /\ checked' = d.checked
    /\ qty' = d.qty
    /\ navigating' = d.navigating
    /\ reloads' = d.reloads

\* the script and the document right after loading
Loaded ==
    /\ currentOrderType = "dinein"
    /\ activeBtns = {"dinein"}
    /\ hidden = [e \in Hideable |-> DefaultHidden(e)]
    /\ value = [f \in Fields |-> DefaultValue(f)]
    /\ checked = FALSE
    /\ qty = [i \in DishInputs |-> DefaultQuantity]
    /\ textContent = [a \in TextAreas |-> <<>>]
    /\ color = [a \in MessageAreas |-> "none"]
    /\ timers = <<>>
    /\ pending = <<>>
    /\ navigating = FALSE

Init ==
    /\ page \in {"order", "admin"}
    /\ Loaded
    /\ ev = Quiet("load")
    /\ nInvoked = 0
    /\ nIssued = 0
    /\ nEdits = 0
    /\ reloads = 0

(* ------------------------------------------------------------------ *)
(* switchOrderType                                                     *)
(* ------------------------------------------------------------------ *)
\* ToggleHidden without the force argument: classList.toggle('hidden')
ToggleHidden_NoForce(h, e, force) == [h EXCEPT ![e] = ~h[e]]

\* classList.toggle('hidden', force)
ToggleHidden(h, e, force) == [h EXCEPT ![e] = force]

\* MarkActive without the loop that removes the class
MarkActive_KeepsOthers(btns, target) == btns \cup {target}

\* lines 19-22: no button keeps the class, then event.target gets it
MarkActive(btns, target) == (btns \ OrderTypes) \cup {target}

\* The toggle button of a type calls switchOrderType with that type, so
\* event.target is that button.
SwitchOrderType(type) ==
    /\ page = "order"
    /\ MayAct
    /\ currentOrderType' = type
    /\ activeBtns' = MarkActive(activeBtns, type)
    /\ hidden' = ToggleHidden(ToggleHidden(hidden, "dinein-form", type # "dinein"),
                              "takeout-form", type # "takeout")
    /\ nEdits' = nEdits + 1
    /\ ev' = [Quiet("switchOrderType") EXCEPT
                !.arg = type,
                !.again = (ev.op = "switchOrderType" /\ ev.arg = type)]
    /\ UNCHANGED <<page, value, checked, qty, textContent, color, timers,
                   pending, navigating, nInvoked, nIssued, reloads>>

(* ------------------------------------------------------------------ *)
(* submitOrder                                                         *)
(* ------------------------------------------------------------------ *)
\* OrderBase without the check of the table number
OrderBase_NoTableCheck(type, v, chk) ==
    LET head == <<Entry("order_type", <<type>>)>>
    IN  IF type = "dinein"
        THEN [alert |-> NoAlert,
              form |-> head \o <<Entry("table_num", v["table_num"]),
                                 Entry("has_room_fee", IF chk THEN <<"1">> ELSE <<"0">>)>>]
        ELSE IF Falsy(v["takeout_time"]) \/ Falsy(v["takeout_address"]) \/ Falsy(v["phone"])
             THEN [alert |-> <<AlertTakeoutInfo>>, form |-> head]
             ELSE [alert |-> NoAlert,
                   form |-> head \o <<Entry("takeout_time", v["takeout_time"]),
                                      Entry("takeout_address", v["takeout_address"]),
                                      Entry("phone", v["phone"])>>]

\* OrderBase with && for || in the takeout check
OrderBase_AllMissing(type, v, chk) ==
    LET head == <<Entry("order_type", <<type>>)>>
    IN  IF type = "dinein"
        THEN IF Falsy(v["table_num"])
             THEN [alert |-> <<AlertTableNum>>, form |-> head]
             ELSE [alert |-> NoAlert,
                   form |-> head \o <<Entry("table_num", v["table_num"]),
                                      Entry("has_room_fee", IF chk THEN <<"1">> ELSE <<"0">>)>>]
        ELSE IF Falsy(v["takeout_time"]) /\ Falsy(v["takeout_address"]) /\ Falsy(v["phone"])
             THEN [alert |-> <<AlertTakeoutInfo>>, form |-> head]
             ELSE [alert |-> NoAlert,
                   form |-> head \o <<Entry("takeout_time", v["takeout_time"]),
                                      Entry("takeout_address", v["takeout_address"]),
                                      Entry("phone", v["phone"])>>]

\* lines 30-54: the order type and its fields, or the alert that aborts
OrderBase(type, v, chk) ==
    LET head == <<Entry("order_type", <<type>>)>>
    IN  IF type = "dinein"
        THEN IF Falsy(v["table_num"])
             THEN [alert |-> <<AlertTableNum>>, form |-> head]
             ELSE [alert |-> NoAlert,
                   form |-> head \o <<Entry("table_num", v["table_num"]),
                                      Entry("has_room_fee", IF chk THEN <<"1">> ELSE <<"0">>)>>]
        ELSE IF Falsy(v["takeout_time"]) \/ Falsy(v["takeout_address"]) \/ Falsy(v["phone"])
             THEN [alert |-> <<AlertTakeoutInfo>>, form |-> head]
             ELSE [alert |-> NoAlert,
                   form |-> head \o <<Entry("takeout_time", v["takeout_time"]),
                                      Entry("takeout_address", v["takeout_address"]),
                                      Entry("phone", v["phone"])>>]

\* IsPositive with >= for >
IsPositive_GeZero(quantity) ==
    GtZero(ToNumber(quantity)) \/ ToNumber(quantity) = Zero(FALSE)

\* line 62: quantity > 0
IsPositive(quantity) == GtZero(ToNumber(quantity))

\* DishEntries with the two appends of a dish in the other order
RECURSIVE DishEntries_QuantityFirst(_, _)
DishEntries_QuantityFirst(q, i) ==
    IF i > NumDishes THEN <<>>
    ELSE (IF GtZero(ToNumber(q[i]))
          THEN <<Entry("quantity", q[i]), Entry("dish_id", DishId(i))>>
          ELSE <<>>) \o DishEntries_QuantityFirst(q, i + 1)

\* lines 59-67: the entries appended for the quantity inputs i .. NumDishes
RECURSIVE DishEntries(_, _)
DishEntries(q, i) ==
    IF i > NumDishes THEN <<>>
    ELSE (IF IsPositive(q[i])
          THEN <<Entry("dish_id", DishId(i)), Entry("quantity", q[i])>>
          ELSE <<>>) \o DishEntries(q, i + 1)

\* lines 29-77: what one run of submitOrder does before fetch
SubmitOrderPlan(type, v, chk, q) ==
    LET base == OrderBase(type, v, chk)
        items == DishEntries(q, 1)
        hasItem == items # <<>>
    IN  IF base.alert # NoAlert THEN [alert |-> base.alert, send |-> FALSE, body |-> <<>>]
        ELSE IF ~hasItem THEN [alert |-> <<AlertNoDish>>, send |-> FALSE, body |-> <<>>]
        ELSE [alert |-> NoAlert, send |-> TRUE, body |-> base.form \o items]

SubmitOrder ==
    /\ page = "order"
    /\ MayAct
    /\ LET plan == SubmitOrderPlan(currentOrderType, value, checked, qty)
           req == Request("submitOrder", plan.body)
       IN  /\ pending' = IF plan.send THEN Append(pending, req) ELSE pending
           /\ nIssued' = IF plan.send THEN nIssued + 1 ELSE nIssued
           /\ ev' = [Evt("submitOrder", "call") EXCEPT
                       !.alert = plan.alert, !.sent = plan.send,
                       !.req = IF plan.send THEN req ELSE NoRequest]
    /\ nInvoked' = nInvoked + 1
    /\ UNCHANGED <<page, dom, timers, navigating, nEdits, reloads>>

\* ResetOrderValue without the reset of phone
ResetOrderValue_SkipsPhone(v) ==
    [v EXCEPT !["table_num"] = <<>>, !["takeout_time"] = <<>>,
              !["takeout_address"] = <<>>]

\* lines 85-90: the reset after a successful submission
ResetOrderValue(v) ==
    [v EXCEPT !["table_num"] = <<>>, !["takeout_time"] = <<>>,
              !["takeout_address"] = <<>>, !["phone"] = <<>>]
ResetQuantities(q) == [i \in DOMAIN q |-> <<"0">>]

\* SubmitOrderThen writing the result area only while it is empty
SubmitOrderThen_FirstWins(data, d) ==
    LET shown == [d EXCEPT !.hidden["order-result"] = FALSE]
    IN  IF data.null THEN shown
        ELSE IF Truthy(data.success)
        THEN [shown EXCEPT !.textContent["order-result"] =
                               IF @ = <<>> THEN TextContentOf(data.order_info) ELSE @,
                           !.value = ResetOrderValue(@),
                           !.checked = FALSE,
                           !.qty = ResetQuantities(@)]
        ELSE [shown EXCEPT !.textContent["order-result"] =
                               <<SubmitFailedLabel>> \o ToText(data.error)]

\* lines 79-94, the callback for the parsed body: the result area is shown
\* (80-81); reading data.success of null throws (82) and ends the callback
\* there; else the order info and the reset (83-90), or the failure label and
\* the reason (92)
SubmitOrderThen(data, d) ==
    LET shown == [d EXCEPT !.hidden["order-result"] = FALSE]
    IN  IF data.null THEN shown
        ELSE IF Truthy(data.success)
        THEN [shown EXCEPT !.textContent["order-result"] = TextContentOf(data.order_info),
                           !.value = ResetOrderValue(@),
                           !.checked = FALSE,
                           !.qty = ResetQuantities(@)]
        ELSE [shown EXCEPT !.textContent["order-result"] =
                               <<SubmitFailedLabel>> \o ToText(data.error)]

\* SubmitOrderCatch writing the error to the result area as the else branch does
SubmitOrderCatch_WritesResult(error, d) ==
    [alert |-> <<AlertNetworkError>> \o error,
     dom |-> [d EXCEPT !.hidden["order-result"] = FALSE,
                       !.textContent["order-result"] = <<SubmitFailedLabel>> \o error]]

\* lines 95-97, the callback for a rejection: the alert, and the document as
\* it is
SubmitOrderCatch(error, d) ==
    [alert |-> <<AlertNetworkError>> \o error, dom |-> d]

\* lines 78-97: the callback of then runs on a parsed body; the callback of
\* catch runs after it when it threw, and alone when the chain was rejected
\* before
SubmitOrderResponse ==
    \E n \in 1..Len(pending) : \E data \in Outcomes("submitOrder") :
        /\ pending[n].op = "submitOrder"
        /\ \E d \in {IF data.kind = "json" THEN SubmitOrderThen(data, Document) ELSE Document} :
           \E r \in {IF Caught("submitOrder", data) # <<>>
                     THEN SubmitOrderCatch(Caught("submitOrder", data)[1], d)
                     ELSE [alert |-> NoAlert, dom |-> d]} :
               /\ Becomes(r.dom)
               /\ ev' = [Evt("submitOrder", Phase("submitOrder", data)) EXCEPT
                           !.alert = r.alert, !.req = pending[n], !.data = data]
        /\ pending' = RemoveAt(pending, n)
        /\ UNCHANGED <<page, currentOrderType, activeBtns, nInvoked, nIssued, nEdits>>

(* ------------------------------------------------------------------ *)
(* The user                                                            *)
(* ------------------------------------------------------------------ *)
EditField(f, v) ==
    /\ MayAct
    /\ value[f] # v
    /\ value' = [value EXCEPT ![f] = v]
    /\ nEdits' = nEdits + 1
    /\ ev' = Quiet("edit")
    /\ UNCHANGED <<page, currentOrderType, activeBtns, hidden, checked, qty,
                   textContent, color, timers, pending, navigating, nInvoked,
                   nIssued, reloads>>

EditOrderField ==
    /\ page = "order"
    /\ \E f \in OrderFields : \E v \in TextChoices(f) : EditField(f, v)

ToggleRoomFee ==
    /\ page = "order"
    /\ MayAct
    /\ checked' = ~checked
    /\ nEdits' = nEdits + 1
    /\ ev' = Quiet("edit")
    /\ UNCHANGED <<page, currentOrderType, activeBtns, hidden, value, qty,
                   textContent, color, timers, pending, navigating, nInvoked,
                   nIssued, reloads>>

EditQuantity ==
    /\ page = "order"
    /\ MayAct
    /\ \E i \in DishInputs : \E v \in QuantityChoices :
          /\ qty[i] # v
          /\ qty' = [qty EXCEPT ![i] = v]
    /\ nEdits' = nEdits + 1
    /\ ev' = Quiet("edit")
    /\ UNCHANGED <<page, currentOrderType, activeBtns, hidden, value, checked,
                   textContent, color, timers, pending, navigating, nInvoked,
                   nIssued, reloads>>

EditAdminField ==
    /\ page = "admin"
    /\ \E f \in AdminFields : \E v \in TextChoices(f) : EditField(f, v)

(* ------------------------------------------------------------------ *)
(* showMessage and its timers                                          *)
(* ------------------------------------------------------------------ *)
MessageColor(isError) == IF isError THEN ColorError ELSE ColorOk

\* ShowMessage clearing the timeouts set earlier for el before setting its own
ShowMessage_ClearsEarlier(d, el, message, isError) ==
    [d EXCEPT !.textContent[el] = message,
              !.color[el] = MessageColor(isError),
              !.hidden[el] = FALSE,
              !.timers = Append(SelectSeq(@, LAMBDA t : t # el), el)]

\* ShowMessage without the call of setTimeout
ShowMessage_NoTimeout(d, el, message, isError) ==
    [d EXCEPT !.textContent[el] = message,
              !.color[el] = MessageColor(isError),
              !.hidden[el] = FALSE]

\* lines 3-11, called on the document d: text, colour, visible, and a timeout
\* that will hide el
ShowMessage(d, el, message, isError) ==
    [d EXCEPT !.textContent[el] = message,
              !.color[el] = MessageColor(isError),
              !.hidden[el] = FALSE,
              !.timers = Append(@, el)]

\* lines 8-10: all timeouts have the same delay, so they fire in the order set
TimerFires ==
    /\ page = "admin"
    /\ timers # <<>>
    /\ hidden' = [hidden EXCEPT ![Head(timers)] = TRUE]
    /\ timers' = Tail(timers)
    /\ ev' = Quiet("timer")
    /\ UNCHANGED <<page, currentOrderType, activeBtns, value, checked, qty,
                   textContent, color, pending, navigating, nInvoked, nIssued,
                   nEdits, reloads>>

(* ------------------------------------------------------------------ *)
(* The admin handlers                                                  *)
(* ------------------------------------------------------------------ *)
\* a handler that returns before fetch, after showMessage(el, message, true)
\* or, when el is "none", silently
AdminAbort(op, el, message, confirm) ==
    /\ \E d \in {IF el = "none" THEN Document
                  ELSE ShowMessage(Document, el, <<message>>, TRUE)} : Becomes(d)
    /\ ev' = [Evt(op, "call") EXCEPT !.confirm = confirm, !.shown = el]
    /\ nInvoked' = nInvoked + 1
    /\ UNCHANGED <<page, currentOrderType, activeBtns, pending, nIssued, nEdits>>

\* AdminSend calling fetch twice
AdminSend_Twice(op, body, confirm) ==
    /\ pending' = Append(Append(pending, Request(op, body)), Request(op, body))
    /\ nIssued' = nIssued + 2
    /\ ev' = [Evt(op, "call") EXCEPT !.sent = TRUE, !.confirm = confirm,
                                     !.req = Request(op, body)]
    /\ nInvoked' = nInvoked + 1
    /\ UNCHANGED <<page, dom, timers, navigating, nEdits, reloads>>

\* a handler that reaches fetch
AdminSend(op, body, confirm) ==
    /\ pending' = Append(pending, Request(op, body))
    /\ nIssued' = nIssued + 1
    /\ ev' = [Evt(op, "call") EXCEPT !.sent = TRUE, !.confirm = confirm,
                                     !.req = Request(op, body)]
    /\ nInvoked' = nInvoked + 1
    /\ UNCHANGED <<page, dom, timers, navigating, nEdits, reloads>>

\* InvalidDish without discount > 1
InvalidDish_NoUpperBound(name, price, discount) ==
    \/ Falsy(name)
    \/ isNaN(price) \/ LeZero(price)
    \/ isNaN(discount) \/ LeZero(discount)

\* line 107: the condition that rejects the dish
InvalidDish(name, price, discount) ==
    \/ Falsy(name)
    \/ isNaN(price) \/ LeZero(price)
    \/ isNaN(discount) \/ LeZero(discount) \/ GtOne(discount)

\* lines 112-115
AddDishBody(name, price, discount) ==
    <<Entry("name", name), Entry("price", NumberToString(price)),
      Entry("discount", NumberToString(discount))>>

\* lines 102-120
AddDish ==
    /\ page = "admin"
    /\ MayAct
    /\ LET name == value["dish_name"]
           price == parseFloat(value["dish_price"])
           discount == parseFloat(value["dish_discount"])
       IN  IF InvalidDish(name, price, discount)
           THEN AdminAbort("addDish", "dish-message", MsgInvalidDish, "none")
           ELSE AdminSend("addDish", AddDishBody(name, price, discount), "none")

\* UpdateDishBody appending new_name without the test of newName
UpdateDishBody_AlwaysName(dishId, newName, newPrice, newDiscount) ==
    <<Entry("dish_id", dishId), Entry("new_name", newName)>>
      \o (IF Falsy(newPrice) THEN <<>>
          ELSE <<Entry("new_price", NumberToString(parseFloat(newPrice)))>>)
      \o (IF Falsy(newDiscount) THEN <<>>
          ELSE <<Entry("new_discount", NumberToString(parseFloat(newDiscount)))>>)

\* lines 152-156
UpdateDishBody(dishId, newName, newPrice, newDiscount) ==
    <<Entry("dish_id", dishId)>>
      \o (IF Falsy(newName) THEN <<>> ELSE <<Entry("new_name", newName)>>)
      \o (IF Falsy(newPrice) THEN <<>>
          ELSE <<Entry("new_price", NumberToString(parseFloat(newPrice)))>>)
      \o (IF Falsy(newDiscount) THEN <<>>
          ELSE <<Entry("new_discount", NumberToString(parseFloat(newDiscount)))>>)

\* lines 141-161
UpdateDish ==
    /\ page = "admin"
    /\ MayAct
    /\ IF Falsy(value["update_dish_id"])
       THEN AdminAbort("updateDish", "update-message", MsgEnterDishId, "none")
       ELSE AdminSend("updateDish",
                      UpdateDishBody(value["update_dish_id"], value["update_dish_name"],
                                     value["update_dish_price"], value["update_dish_discount"]),
                      "none")

\* DeleteDish ignoring what confirm() returned
DeleteDish_IgnoresAnswer(answer) ==
    /\ page = "admin"
    /\ MayAct
    /\ IF Falsy(value["delete_dish_id"])
       THEN AdminAbort("deleteDish", "delete-message", MsgEnterDishId, "none")
       ELSE AdminSend("deleteDish", <<Entry("dish_id", value["delete_dish_id"])>>,
                      IF answer THEN "accepted" ELSE "declined")

\* lines 183-200; answer is what the user clicks when confirm() is shown
DeleteDish(answer) ==
    /\ page = "admin"
    /\ MayAct
    /\ IF Falsy(value["delete_dish_id"])
       THEN AdminAbort("deleteDish", "delete-message", MsgEnterDishId, "none")
       ELSE IF ~answer
       THEN AdminAbort("deleteDish", "none", "", "declined")
       ELSE AdminSend("deleteDish", <<Entry("dish_id", value["delete_dish_id"])>>, "accepted")

\* lines 219-235
SearchOrder ==
    /\ page = "admin"
    /\ MayAct
    /\ IF Falsy(value["search_keyword"])
       THEN AdminAbort("searchOrder", "order-message", MsgEnterKeyword, "none")
       ELSE AdminSend("searchOrder",
                      <<Entry("search_type", value["search_type"]),
                        Entry("keyword", value["search_keyword"])>>, "none")

\* lines 260-277; answer is what the user clicks when confirm() is shown
DeleteOrder(answer) ==
    /\ page = "admin"
    /\ MayAct
    /\ IF Falsy(value["delete_order_no"])
       THEN AdminAbort("deleteOrder", "delete-order-message", MsgEnterOrderNo, "none")
       ELSE IF ~answer
       THEN AdminAbort("deleteOrder", "none", "", "declined")
       ELSE AdminSend("deleteOrder", <<Entry("order_no", value["delete_order_no"])>>, "accepted")

(* ------------------------------------------------------------------ *)
(* The continuations of the admin requests                             *)
(* ------------------------------------------------------------------ *)
CrudOps == {"addDish", "updateDish", "deleteDish", "deleteOrder"}
MessageArea(op) ==
    CASE op = "addDish" -> "dish-message"
      [] op = "updateDish" -> "update-message"
      [] op = "deleteDish" -> "delete-message"
      [] op = "searchOrder" -> "order-message"
      [] op = "deleteOrder" -> "delete-order-message"
SuccessMessage(op) ==
    CASE op = "addDish" -> MsgDishAdded
      [] op = "updateDish" -> MsgDishUpdated
      [] op = "deleteDish" -> MsgDishDeleted
      [] op = "deleteOrder" -> MsgOrderDeleted
FailedLabel(op) ==
    CASE op = "addDish" -> AddFailedLabel
      [] op = "updateDish" -> UpdateFailedLabel
      [] op = "deleteDish" -> DeleteFailedLabel
      [] op = "deleteOrder" -> DeleteFailedLabel
\* the form reset of the success branch (lines 126-128, 167-170, 206, 282)
ResetAfter(op, v) ==
    CASE op = "addDish" ->
           [v EXCEPT !["dish_name"] = <<>>, !["dish_price"] = <<>>,
                     !["dish_discount"] = NumberToString(Fin(FALSE, <<1>>, 1))]
      [] op = "updateDish" ->
           [v EXCEPT !["update_dish_id"] = <<>>, !["update_dish_name"] = <<>>,
                     !["update_dish_price"] = <<>>, !["update_dish_discount"] = <<>>]
      [] op = "deleteDish" -> [v EXCEPT !["delete_dish_id"] = <<>>]
      [] op = "deleteOrder" -> [v EXCEPT !["delete_order_no"] = <<>>]
\* Reloads with deleteOrder reloading as deleteDish does
Reloads_AlsoOrderDelete(op) == op \in {"addDish", "updateDish", "deleteDish", "deleteOrder"}

\* the success branch ends with location.reload() (lines 130, 172, 208)
Reloads(op) == op \in {"addDish", "updateDish", "deleteDish"}

\* the .then(data => ...) of addDish, updateDish, deleteDish and deleteOrder:
\* reading data.success of null throws before anything is done
CrudThen(op, data, d) ==
    IF data.null THEN d
    ELSE IF Truthy(data.success)
    THEN [ShowMessage(d, MessageArea(op), <<SuccessMessage(op)>>, FALSE) EXCEPT
              !.value = ResetAfter(op, @),
              !.navigating = (@ \/ Reloads(op)),
              !.reloads = IF Reloads(op) THEN @ + 1 ELSE @]
    ELSE ShowMessage(d, MessageArea(op), <<FailedLabel(op)>> \o ToText(data.error), TRUE)

\* AdminCatch clearing the fields as the success branch does
AdminCatch_ClearsFields(op, error, d) ==
    [ShowMessage(d, MessageArea(op), <<NetworkErrorLabel>> \o error, TRUE) EXCEPT
         !.value = IF op \in CrudOps THEN ResetAfter(op, @) ELSE @]

\* the .catch(error => ...) of the five admin handlers
AdminCatch(op, error, d) ==
    ShowMessage(d, MessageArea(op), <<NetworkErrorLabel>> \o error, TRUE)

\* the callback of then on a parsed body, and the callback of catch after it
\* when it threw, or alone when the chain was rejected before
CrudResponse ==
    \E n \in 1..Len(pending) : \E data \in Outcomes(pending[n].op) :
        /\ pending[n].op \in CrudOps
        /\ \E d \in {IF data.kind = "json" THEN CrudThen(pending[n].op, data, Document)
                     ELSE Document} :
           \E r \in {IF Caught(pending[n].op, data) # <<>>
                     THEN AdminCatch(pending[n].op, Caught(pending[n].op, data)[1], d)
                     ELSE d} :
               Becomes(r)
        /\ ev' = [Evt(pending[n].op, Phase(pending[n].op, data)) EXCEPT
                    !.reload = (Phase(pending[n].op, data) = "ok" /\ Reloads(pending[n].op)),
                    !.shown = MessageArea(pending[n].op),
                    !.req = pending[n], !.data = data]
        /\ pending' = RemoveAt(pending, n)
        /\ UNCHANGED <<page, currentOrderType, activeBtns, nInvoked, nIssued, nEdits>>

\* OrderText numbering the headers with index instead of index+1
RECURSIVE OrderText_ZeroBased(_, _)
OrderText_ZeroBased(orders, index) ==
    IF index > Len(orders) THEN <<>>
    ELSE <<OrderHeaderOpen, ToString(index - 1), OrderHeaderClose>>
           \o ToText(orders[index].info) \o <<NewLine>>
           \o OrderText_ZeroBased(orders, index + 1)

\* lines 245-248: the text built by the forEach, from the order at index on
RECURSIVE OrderText(_, _)
OrderText(orders, index) ==
    IF index > Len(orders) THEN <<>>
    ELSE <<OrderHeaderOpen, ToString(index), OrderHeaderClose>>
           \o ToText(orders[index].info) \o <<NewLine>>
           \o OrderText(orders, index + 1)

\* lines 240-252: what the result area shows
SearchResultText(data) ==
    IF Truthy(data.success)
    THEN IF Len(data.orders[1]) = 0 THEN <<MsgNoOrders>> ELSE OrderText(data.orders[1], 1)
    ELSE <<SearchFailedLabel>> \o ToText(data.error)

\* SearchThen reporting a failure flag through showMessage
SearchThen_FailureAsMessage(data, d) ==
    LET shown == [d EXCEPT !.hidden["order-result"] = FALSE]
    IN  IF Thrown("searchOrder", data) # <<>> THEN shown
        ELSE IF Truthy(data.success)
        THEN [shown EXCEPT !.textContent["order-result"] = SearchResultText(data)]
        ELSE ShowMessage(d, "order-message", <<SearchFailedLabel>> \o ToText(data.error), TRUE)

\* lines 237-253, the callback for the parsed body: the result area is shown
\* (238-239); reading data.success of null (240) or data.orders.length of a
\* body without orders (241) throws and ends the callback there; else the
\* result area gets its text
SearchThen(data, d) ==
    LET shown == [d EXCEPT !.hidden["order-result"] = FALSE]
    IN  IF Thrown("searchOrder", data) # <<>> THEN shown
        ELSE [shown EXCEPT !.textContent["order-result"] = SearchResultText(data)]

\* lines 236-256: the callback of then on a parsed body, and the callback of
\* catch (AdminCatch) after it when it threw, or alone when the chain was
\* rejected before
SearchResponse ==
    \E n \in 1..Len(pending) : \E data \in Outcomes("searchOrder") :
        /\ pending[n].op = "searchOrder"
        /\ \E d \in {IF data.kind = "json" THEN SearchThen(data, Document) ELSE Document} :
           \E r \in {IF Caught("searchOrder", data) # <<>>
                     THEN AdminCatch("searchOrder", Caught("searchOrder", data)[1], d)
                     ELSE d} :
               Becomes(r)
        /\ ev' = [Evt("searchOrder", Phase("searchOrder", data)) EXCEPT
                    !.shown = IF Caught("searchOrder", data) # <<>>
                              THEN "order-message" ELSE "none",
                    !.req = pending[n], !.data = data]
        /\ pending' = RemoveAt(pending, n)
        /\ UNCHANGED <<page, currentOrderType, activeBtns, nInvoked, nIssued, nEdits>>

\* the reload takes effect: a fresh document and script, nothing in flight
Navigate ==
    /\ navigating
    /\ currentOrderType' = "dinein"
    /\ activeBtns' = {"dinein"}
    /\ hidden' = [e \in Hideable |-> DefaultHidden(e)]
    /\ value' = [f \in Fields |-> DefaultValue(f)]
    /\ checked' = FALSE
    /\ qty' = [i \in DishInputs |-> DefaultQuantity]
    /\ textContent' = [a \in TextAreas |-> <<>>]
    /\ color' = [a \in MessageAreas |-> "none"]
    /\ timers' = <<>>
    /\ pending' = <<>>
    /\ navigating' = FALSE
    /\ ev' = Quiet("load")
    /\ UNCHANGED <<page, nInvoked, nIssued, nEdits, reloads>>

(* ------------------------------------------------------------------ *)
(* The specification                                                   *)
(* ------------------------------------------------------------------ *)
NextOrder ==
    \/ \E type \in OrderTypes : SwitchOrderType(type)
    \/ EditOrderField
    \/ ToggleRoomFee
    \/ EditQuantity
    \/ SubmitOrder
    \/ SubmitOrderResponse

NextAdmin ==
    \/ EditAdminField
    \/ AddDish
    \/ UpdateDish
    \/ \E answer \in BOOLEAN : DeleteDish(answer)
    \/ SearchOrder
    \/ \E answer \in BOOLEAN : DeleteOrder(answer)
    \/ CrudResponse
    \/ SearchResponse
    \/ TimerFires
    \/ Navigate

Next == NextOrder \/ NextAdmin

Spec == Init /\ [][Next]_vars

\* A timeout that was set is run by the browser once its delay has passed.
FairSpec == Spec /\ WF_vars(TimerFires)

(* ------------------------------------------------------------------ *)
(* Properties                                                          *)
(* ------------------------------------------------------------------ *)
\* what a response carries: the reason of a failure and the info of an order
\* as they are written into a text (the word undefined for one that the body
\* leaves out), the order info as it is set as a text, and the order list
Reason(data) == IF data.error = <<>> THEN <<"undefined">> ELSE data.error[1]
InfoOf(order) == IF order.info = <<>> THEN <<"undefined">> ELSE order.info[1]
OrderInfoOf(data) == IF data.order_info = <<>> THEN <<>> ELSE data.order_info[1]
ListOf(data) == data.orders[1]
\* the step just taken was a run of handler op
Called(op) == ev.op = op /\ ev.phase = "call"
\* the text denotes a number greater than zero
HoldsPositiveValue(text) ==
    LET x == ToNumber(text)
    IN  x.kind # "nan" /\ ~x.neg /\ (x.kind = "inf" \/ x.digits # <<>>)
PositiveInputs == {i \in DishInputs : HoldsPositiveValue(qty[i])}

\* C1: a run of submitOrder with the order type dine-in and an empty table
\* number adds no request and raises the table-number alert, whatever the
\* other fields hold.
C1_DineInWithoutTable ==
    [][(/\ ev'.op = "submitOrder" /\ ev'.phase = "call"
        /\ currentOrderType = "dinein"
        /\ value["table_num"] = <<>>)
       => (/\ pending' = pending
           /\ nIssued' = nIssued
           /\ ~ev'.sent
           /\ ev'.alert = <<AlertTableNum>>)]_vars
\* such a run happened with the room fee checked and a dish chosen
C1_Witness ==
    /\ Called("submitOrder")
    /\ currentOrderType = "dinein"
    /\ value["table_num"] = <<>>
    /\ checked
    /\ PositiveInputs # {}
    /\ ev.alert = <<AlertTableNum>>
    /\ pending = <<>>

\* C2: a run of submitOrder with the order type takeout and one of pickup
\* time, address and phone empty adds no request, whatever the other fields
\* hold.
C2_TakeoutIncomplete ==
    [][(/\ ev'.op = "submitOrder" /\ ev'.phase = "call"
        /\ currentOrderType = "takeout"
        /\ \E f \in {"takeout_time", "takeout_address", "phone"} : value[f] = <<>>)
       => (/\ pending' = pending
           /\ nIssued' = nIssued
           /\ ~ev'.sent)]_vars
\* such a run happened with only the phone missing and a dish chosen
C2_Witness ==
    /\ Called("submitOrder")
    /\ currentOrderType = "takeout"
    /\ value["takeout_time"] # <<>>
    /\ value["takeout_address"] # <<>>
    /\ value["phone"] = <<>>
    /\ PositiveInputs # {}
    /\ pending = <<>>

\* C3: a run of submitOrder in which no quantity input holds a positive value
\* adds no request, whatever the order type and its fields.
C3_NoPositiveQuantity ==
    [][(/\ ev'.op = "submitOrder" /\ ev'.phase = "call"
        /\ PositiveInputs = {})
       => (/\ pending' = pending
           /\ nIssued' = nIssued
           /\ ~ev'.sent)]_vars
\* such a run happened with the table number given, one quantity that is
\* no number (2x) and one that is negative
C3_Witness ==
    /\ Called("submitOrder")
    /\ currentOrderType = "dinein"
    /\ value["table_num"] # <<>>
    /\ PositiveInputs = {}
    /\ qty[1] = <<"2", "x">>
    /\ qty[2] = <<"-", "1">>
    /\ ev.alert = <<AlertNoDish>>
    /\ pending = <<>>

\* C4: the continuation of an order request leaves, on success, the table
\* number, the pickup time, the address and the phone empty, the room fee
\* unchecked and every quantity "0", whatever they held before it ran; on a
\* failure flag it leaves each of them as it was.
C4_ResetOnSuccessOnly ==
    [][/\ (ev'.op = "submitOrder" /\ ev'.phase = "ok")
          => (/\ \A f \in OrderFields : value'[f] = <<>>
              /\ checked' = FALSE
              /\ \A i \in DishInputs : qty'[i] = <<"0">>)
       /\ (ev'.op = "submitOrder" /\ ev'.phase = "failed")
          => (value' = value /\ checked' = checked /\ qty' = qty)]_vars
\* a success was handled for a request that carried a table number and a
\* checked room fee, and the form is back at its defaults
C4_Witness ==
    /\ ev.op = "submitOrder" /\ ev.phase = "ok"
    /\ \E n \in 1..Len(ev.req.body) : ev.req.body[n] = Entry("table_num", <<"5">>)
    /\ \E n \in 1..Len(ev.req.body) : ev.req.body[n] = Entry("has_room_fee", <<"1">>)
    /\ value["table_num"] = <<>>
    /\ ~checked
    /\ \A i \in DishInputs : qty[i] = <<"0">>

\* C5: a run of dish add, dish update, dish delete or order delete in which
\* the confirmation is declined adds no request: those in flight and the
\* count of requests issued stay as they were and fetch is not called.
C5_DeclinedSendsNothing ==
    [][(/\ ev'.phase = "call"
        /\ ev'.op \in {"addDish", "updateDish", "deleteDish", "deleteOrder"}
        /\ ev'.confirm = "declined")
       => (/\ pending' = pending
           /\ nIssued' = nIssued
           /\ ~ev'.sent)]_vars
\* a dish delete with an identifier was declined
C5_Witness ==
    /\ Called("deleteDish")
    /\ value["delete_dish_id"] # <<>>
    /\ ev.confirm = "declined"
    /\ pending = <<>>

\* x is a number greater than zero; x is a number in (0, 1]
IsPositiveNumber(x) == x.kind # "nan" /\ ~x.neg /\ (x.kind = "inf" \/ x.digits # <<>>)
InUnitInterval(x) ==
    /\ x.kind = "fin" /\ ~x.neg /\ x.digits # <<>>
    /\ x.point <= 0 \/ (x.point = 1 /\ x.digits = <<1>>)
\* C6: a run of addDish whose name is empty, whose price as read by parseFloat
\* is not a positive number, or whose discount as read by parseFloat is not a
\* number in (0, 1], adds no request and shows the red message.
C6_InvalidDishRejected ==
    [][(/\ ev'.op = "addDish" /\ ev'.phase = "call"
        /\ \/ value["dish_name"] = <<>>
           \/ ~IsPositiveNumber(parseFloat(value["dish_price"]))
           \/ ~InUnitInterval(parseFloat(value["dish_discount"])))
       => (/\ pending' = pending
           /\ nIssued' = nIssued
           /\ ~ev'.sent
           /\ textContent'["dish-message"] = <<MsgInvalidDish>>
           /\ color'["dish-message"] = ColorError
           /\ ~hidden'["dish-message"])]_vars
\* a dish with a name, a valid price and the discount 1.5 was rejected
C6_Witness ==
    /\ Called("addDish")
    /\ value["dish_name"] # <<>>
    /\ value["dish_price"] = <<"8", ".", "5">>
    /\ value["dish_discount"] = <<"1", ".", "5">>
    /\ ~ev.sent
    /\ textContent["dish-message"] = <<MsgInvalidDish>>

\* C7: after the continuation of a search has handled a success, the result
\* area is visible and shows the no-results text for an empty list, and
\* otherwise five pieces per order, in the order received: the header with
\* the order's position counted from 1, the order's info, and a line break.
C7_SearchRendering ==
    (ev.op = "searchOrder" /\ ev.phase = "ok")
    => LET t == textContent["order-result"]
           os == ListOf(ev.data)
       IN  /\ ~hidden["order-result"]
           /\ IF os = <<>>
              THEN t = <<MsgNoOrders>>
              ELSE /\ Len(t) = 5 * Len(os)
                   /\ \A i \in 1..Len(os) :
                        /\ t[5 * (i - 1) + 1] = OrderHeaderOpen
                        /\ t[5 * (i - 1) + 2] = ToString(i)
                        /\ t[5 * (i - 1) + 3] = OrderHeaderClose
                        /\ <<t[5 * (i - 1) + 4]>> = InfoOf(os[i])
                        /\ t[5 * (i - 1) + 5] = NewLine
\* a search returned two different orders
C7_Witness ==
    /\ ev.op = "searchOrder" /\ ev.phase = "ok"
    /\ Len(ListOf(ev.data)) = 2
    /\ \A i \in 1..2 : ListOf(ev.data)[i].info # <<>>
    /\ ListOf(ev.data)[1].info # ListOf(ev.data)[2].info
    /\ Len(textContent["order-result"]) = 10

\* the position of input i among the inputs holding a positive value
Rank(i) == Cardinality({j \in PositiveInputs : j <= i})
\* C8: right after a run of submitOrder that issued a request, the request is
\* the last one in flight and its body is: the current order type; for dine-in
\* the table number and the room fee as 1 or 0, for takeout the pickup time,
\* the address and the phone, and nothing of the other type; then, for each
\* quantity input holding a positive value and for no other, in the order of
\* the inputs, its dish id followed by its quantity.
C8_OrderPayload ==
    (Called("submitOrder") /\ ev.sent)
    => LET b == ev.req.body
           hdr == IF currentOrderType = "dinein" THEN 3 ELSE 4
       IN  /\ pending # <<>> /\ pending[Len(pending)] = ev.req
           /\ ev.req.op = "submitOrder"
           /\ Len(b) = hdr + 2 * Cardinality(PositiveInputs)
           /\ b[1] = Entry("order_type", <<currentOrderType>>)
           /\ currentOrderType = "dinein" =>
                /\ b[2] = Entry("table_num", value["table_num"])
                /\ b[3] = Entry("has_room_fee", IF checked THEN <<"1">> ELSE <<"0">>)
                /\ ~Has(b, "takeout_time") /\ ~Has(b, "takeout_address") /\ ~Has(b, "phone")
           /\ currentOrderType = "takeout" =>
                /\ b[2] = Entry("takeout_time", value["takeout_time"])
                /\ b[3] = Entry("takeout_address", value["takeout_address"])
                /\ b[4] = Entry("phone", value["phone"])
                /\ ~Has(b, "table_num") /\ ~Has(b, "has_room_fee")
           /\ \A i \in PositiveInputs :
                /\ b[hdr + 2 * Rank(i) - 1] = Entry("dish_id", DishId(i))
                /\ b[hdr + 2 * Rank(i)] = Entry("quantity", qty[i])
\* a takeout order was sent whose one chosen dish has its quantity typed as
\* the hexadecimal literal 0x10, which is sent as typed
C8_Witness ==
    /\ Called("submitOrder") /\ ev.sent
    /\ currentOrderType = "takeout"
    /\ PositiveInputs = {2}
    /\ qty[2] = <<"0", "x", "1", "0">>
    /\ ev.req.body[6] = Entry("quantity", <<"0", "x", "1", "0">>)

DishOps == {"addDish", "updateDish", "deleteDish"}
\* C9: a step calls location.reload() exactly when it is the continuation of
\* a dish add, dish update or dish delete handling a success; it then calls
\* it once.
C9_ReloadOnlyAfterDishSuccess ==
    [][/\ (reloads' # reloads) <=> (ev'.phase = "ok" /\ ev'.op \in DishOps)
       /\ (reloads' # reloads) => (reloads' = reloads + 1 /\ navigating' /\ ev'.reload)]_vars
\* the success of a dish add was handled and the reload is under way
C9_Witness ==
    /\ ev.op = "addDish" /\ ev.phase = "ok"
    /\ reloads = 1
    /\ navigating

Handlers == {"submitOrder", "addDish", "updateDish", "deleteDish", "searchOrder", "deleteOrder"}
\* C10: requests are added only by runs of the six handlers, one run adding
\* at most one, and exactly one when it raised no alert, showed no message and
\* met no declined confirmation, also with requests already in flight; a
\* continuation takes its request out of flight and adds none, a timer or the
\* user's typing adds none; so the requests issued never outnumber the runs.
C10_NoAutomaticRetry ==
    /\ [](nIssued <= nInvoked)
    /\ [][/\ (Len(pending') > Len(pending) \/ nIssued' # nIssued)
             => (/\ ev'.phase = "call" /\ ev'.op \in Handlers
                 /\ nInvoked' = nInvoked + 1
                 /\ nIssued' = nIssued + 1
                 /\ pending' = Append(pending, ev'.req))
          /\ (/\ ev'.phase = "call"
              /\ ev'.alert = NoAlert /\ ev'.shown = "none" /\ ev'.confirm # "declined")
             => (nIssued' = nIssued + 1 /\ pending' = Append(pending, ev'.req))
          /\ (ev'.phase \in {"ok", "failed", "threw", "catch"})
             => (Len(pending') = Len(pending) - 1 /\ nIssued' = nIssued /\ nInvoked' = nInvoked)
          /\ (ev'.phase = "env")
             => (Len(pending') <= Len(pending) /\ nIssued' = nIssued /\ nInvoked' = nInvoked)]_vars
\* a second request was issued while the first was still in flight
C10_Witness ==
    /\ ev.phase = "call" /\ ev.sent
    /\ Len(pending) = 2
    /\ nIssued = 2

FormInputs == <<value, checked, qty>>
SubFormsHidden == <<hidden["dinein-form"], hidden["takeout-form"]>>
\* C11: the continuation of any of the six operations that handles a failure
\* flag or a rejected request leaves every input field, the order type, the
\* toggle buttons and the two sub-forms as they were and calls no reload;
\* what it may change is the text, colour and visibility of a message or
\* result area.
C11_FailureKeepsInput ==
    [][(ev'.phase \in {"failed", "catch"})
       => (/\ ev'.op \in Handlers
           /\ FormInputs' = FormInputs
           /\ currentOrderType' = currentOrderType
           /\ activeBtns' = activeBtns
           /\ SubFormsHidden' = SubFormsHidden
           /\ reloads' = reloads /\ navigating' = navigating)]_vars
\* a rejected dish update was handled and the identifier typed is still there
C11_Witness ==
    /\ ev.op = "updateDish" /\ ev.phase = "catch"
    /\ value["update_dish_id"] # <<>>
    /\ value["update_dish_id"] = ev.req.body[1].v
    /\ textContent["update-message"] = <<NetworkErrorLabel>> \o ev.data.error

\* C12: the continuation of an order submission handling a rejected request
\* raises the network-error alert and leaves the text and the visibility of
\* the result area as they were; handling a failure flag it raises no alert,
\* and shows the result area with the failure label and the server's reason.
C12_SubmitErrorClasses ==
    [][/\ (ev'.op = "submitOrder" /\ ev'.phase = "catch")
          => (/\ ev'.alert = <<AlertNetworkError>> \o ev'.data.error
              /\ textContent'["order-result"] = textContent["order-result"]
              /\ hidden'["order-result"] = hidden["order-result"])
       /\ (ev'.op = "submitOrder" /\ ev'.phase = "failed")
          => (/\ ev'.alert = NoAlert
              /\ textContent'["order-result"] = <<SubmitFailedLabel>> \o Reason(ev'.data)
              /\ ~hidden'["order-result"])
       /\ (ev'.op = "submitOrder" /\ ev'.phase = "ok")
          => ev'.alert = NoAlert]_vars
\* a rejected order request was handled while the result area still showed
\* the failure reported for an earlier one
C12_Witness ==
    /\ ev.op = "submitOrder" /\ ev.phase = "catch"
    /\ ev.alert # NoAlert
    /\ ~hidden["order-result"]
    /\ textContent["order-result"][1] = SubmitFailedLabel

\* the order type, its button and its sub-form agree
TypeShown ==
    /\ currentOrderType \in OrderTypes
    /\ activeBtns = {currentOrderType}
    /\ hidden["dinein-form"] = (currentOrderType # "dinein")
    /\ hidden["takeout-form"] = (currentOrderType # "takeout")
\* C13: the order type is dine-in until the first switch and the argument of
\* the last switch afterwards; at every moment the button of the order type,
\* and no other, is active, and the sub-form of the order type, and no other,
\* is visible; no step other than a switch or a reload changes any of them.
C13_TypeFollowsLastSwitch ==
    /\ [](TypeShown)
    /\ [][/\ (ev'.op = "switchOrderType")
             => (ev'.arg \in OrderTypes /\ currentOrderType' = ev'.arg)
          /\ (ev'.op \notin {"switchOrderType", "load"})
             => (/\ currentOrderType' = currentOrderType
                 /\ activeBtns' = activeBtns
                 /\ SubFormsHidden' = SubFormsHidden)]_vars
\* takeout was chosen, then dine-in again
C13_Witness ==
    /\ ev.op = "switchOrderType" /\ ev.arg = "dinein"
    /\ nEdits = 2 /\ nInvoked = 0
    /\ value = [f \in Fields |-> DefaultValue(f)] /\ ~checked
    /\ qty = [i \in DishInputs |-> DefaultQuantity]
    /\ ~ev.again
    /\ TypeShown

\* C14: a call of switchOrderType that directly follows a call with the same
\* type changes neither the order type, nor the active buttons, nor the
\* visibility of any element.
C14_SwitchIdempotent ==
    [][(/\ ev.op = "switchOrderType"
        /\ ev'.op = "switchOrderType"
        /\ ev'.arg = ev.arg)
       => (/\ currentOrderType' = currentOrderType
           /\ activeBtns' = activeBtns
           /\ hidden' = hidden)]_vars
\* takeout was chosen twice in a row
C14_Witness ==
    /\ ev.op = "switchOrderType" /\ ev.arg = "takeout" /\ ev.again
    /\ currentOrderType = "takeout"
    /\ ~hidden["takeout-form"] /\ hidden["dinein-form"]

\* the areas that have a timeout set and not yet fired
Scheduled == {timers[k] : k \in 1..Len(timers)}
\* C15: every call of showMessage shows its area and sets one more timeout
\* for it, behind those already set; the timeouts all have the same delay, so
\* they fire in the order set, each hiding its own area and changing no text;
\* no other step of the loaded document removes or reorders a timeout. So
\* when a timeout fires while a later one for the same area is still set,
\* the area is hidden although the later message, whose text it shows, has
\* its own timeout still to come.
C15_TimersUncoordinated ==
    [][/\ (ev'.shown # "none")
          => (/\ ev'.shown \in MessageAreas
              /\ timers' = Append(timers, ev'.shown)
              /\ ~hidden'[ev'.shown])
       /\ (ev'.op = "timer")
          => (/\ timers # <<>>
              /\ timers' = Tail(timers)
              /\ hidden'[Head(timers)]
              /\ textContent' = textContent
              /\ Head(timers) \in {timers[k] : k \in 2..Len(timers)}
                   => (hidden'[Head(timers)] /\ Head(timers) \in Scheduled'))
       /\ (ev'.shown = "none" /\ ev'.op \notin {"timer", "load"})
          => timers' = timers]_vars
\* the timeout of an earlier message has hidden the delete area while it shows
\* the failure of a later delete, whose own timeout is still set
C15_Witness ==
    /\ ev.op = "timer"
    /\ hidden["delete-message"]
    /\ timers = <<"delete-message">>
    /\ textContent["delete-message"][1] = DeleteFailedLabel

\* C16: a message area that is visible has a timeout set; with timeouts
\* firing, a visible message area is hidden later on; an area with no
\* timeout left is hidden and stays so until showMessage is called for it.
C16_MessagesGetHidden ==
    /\ [](\A a \in MessageAreas : ~hidden[a] => a \in Scheduled)
    /\ \A a \in MessageAreas : (~hidden[a]) ~> hidden[a]
    /\ [][\A a \in MessageAreas :
            (hidden[a] /\ a \notin Scheduled /\ ~hidden'[a]) => ev'.shown = a]_vars
\* the only timeout has fired and the message area that was shown is hidden
C16_Witness ==
    /\ ev.op = "timer"
    /\ timers = <<>>
    /\ hidden["dish-message"]
    /\ textContent["dish-message"] = <<MsgInvalidDish>>

\* C17: the continuation of a search handling a failure flag shows the
\* result area with the search-failure label and the server's reason, calls
\* no showMessage and leaves the order message area and the timeouts as they
\* were; handling a rejected request it shows the network error in the order
\* message area in red with a timeout, and leaves the text and the visibility
\* of the result area as they were.
C17_SearchErrorClasses ==
    [][/\ (ev'.op = "searchOrder" /\ ev'.phase = "failed")
          => (/\ ~hidden'["order-result"]
              /\ textContent'["order-result"] = <<SearchFailedLabel>> \o Reason(ev'.data)
              /\ ev'.shown = "none"
              /\ textContent'["order-message"] = textContent["order-message"]
              /\ hidden'["order-message"] = hidden["order-message"]
              /\ color' = color
              /\ timers' = timers)
       /\ (ev'.op = "searchOrder" /\ ev'.phase = "catch")
          => (/\ textContent'["order-message"] = <<NetworkErrorLabel>> \o ev'.data.error
              /\ color'["order-message"] = ColorError
              /\ ~hidden'["order-message"]
              /\ timers' = Append(timers, "order-message")
              /\ textContent'["order-result"] = textContent["order-result"]
              /\ hidden'["order-result"] = hidden["order-result"])]_vars
\* a rejected search was handled while the result area showed the failure of
\* an earlier search
C17_Witness ==
    /\ ev.op = "searchOrder" /\ ev.phase = "catch"
    /\ ~hidden["order-result"]
    /\ textContent["order-result"][1] = SearchFailedLabel
    /\ ~hidden["order-message"]
    /\ textContent["order-message"][1] = NetworkErrorLabel

\* C18: a run of updateDish with an empty identifier adds no request and
\* shows the red message asking for it, whatever the other fields hold; with
\* an identifier it adds one request whose body starts with the identifier as
\* typed and holds new_name, new_price, new_discount exactly for those of the
\* three fields that are not empty, the name as typed, and nothing else.
C18_UpdatePayload ==
    [][(ev'.op = "updateDish" /\ ev'.phase = "call")
       => IF value["update_dish_id"] = <<>>
          THEN /\ pending' = pending
               /\ nIssued' = nIssued
               /\ ~ev'.sent
               /\ textContent'["update-message"] = <<MsgEnterDishId>>
               /\ color'["update-message"] = ColorError
               /\ ~hidden'["update-message"]
          ELSE LET b == ev'.req.body
                   given == {f \in {"update_dish_name", "update_dish_price",
                                    "update_dish_discount"} : value[f] # <<>>}
               IN  /\ ev'.sent
                   /\ pending' = Append(pending, ev'.req)
                   /\ ev'.req.op = "updateDish"
                   /\ b[1] = Entry("dish_id", value["update_dish_id"])
                   /\ Len(b) = 1 + Cardinality(given)
                   /\ Has(b, "new_name") <=> "update_dish_name" \in given
                   /\ Has(b, "new_price") <=> "update_dish_price" \in given
                   /\ Has(b, "new_discount") <=> "update_dish_discount" \in given
                   /\ "update_dish_name" \in given
                        => b[2] = Entry("new_name", value["update_dish_name"])]_vars
\* an update with an identifier and a new discount only was sent
C18_Witness ==
    /\ Called("updateDish") /\ ev.sent
    /\ value["update_dish_name"] = <<>>
    /\ value["update_dish_price"] = <<>>
    /\ value["update_dish_discount"] # <<>>
    /\ Len(ev.req.body) = 2
    /\ ev.req.body[2].k = "new_discount"

\* C19: a continuation answers any one of the requests in flight, whichever
\* was issued first, and the others stay in flight as they were sent; the
\* result area then shows what that response carries, whatever it showed
\* before; a step of the user (typing, ticking, switching the order type) or
\* of a timeout changes no request in flight.
C19_LastHandledWins ==
    [][/\ (ev'.phase \in {"ok", "failed", "threw", "catch"})
          => \E n \in 1..Len(pending) :
                /\ pending[n] = ev'.req
                /\ pending' = RemoveAt(pending, n)
       /\ (ev'.op = "submitOrder" /\ ev'.phase = "ok")
          => textContent'["order-result"] = OrderInfoOf(ev'.data)
       /\ (ev'.op = "submitOrder" /\ ev'.phase = "failed")
          => textContent'["order-result"] = <<SubmitFailedLabel>> \o Reason(ev'.data)
       /\ (ev'.op = "searchOrder" /\ ev'.phase = "ok")
          => LET t == textContent'["order-result"]
                 os == ListOf(ev'.data)
             IN  IF os = <<>> THEN t = <<MsgNoOrders>>
                 ELSE /\ Len(t) = 5 * Len(os)
                      /\ \A i \in 1..Len(os) : <<t[5 * (i - 1) + 4]>> = InfoOf(os[i])
       /\ (ev'.op = "searchOrder" /\ ev'.phase = "failed")
          => textContent'["order-result"] = <<SearchFailedLabel>> \o Reason(ev'.data)
       /\ (ev'.phase = "env" /\ ev'.op # "load")
          => pending' = pending]_vars
\* of two dine-in orders in flight the one issued second, after a second dish
\* was chosen, has been answered first: the result area shows its order info,
\* the form is reset, and the first order is still in flight with one dish
C19_Witness ==
    /\ ev.op = "submitOrder" /\ ev.phase = "ok"
    /\ nEdits = 3 /\ nInvoked = 2 /\ nIssued = 2
    /\ Len(ev.req.body) = 7
    /\ Len(pending) = 1 /\ Len(pending[1].body) = 5
    /\ ev.data.order_info # <<>>
    /\ textContent["order-result"] = OrderInfoOf(ev.data)
    /\ \A i \in DishInputs : qty[i] = <<"0">>

====
